---- MODULE Spec2Model ----
(***************************************************************************)
(* Dataset curation scripts over one split's images/ and labels/           *)
(* directories: the Sequential Renamer (img_rename.py), the Conflict       *)
(* Resolver (modify_labels.py), the Class Remapper (label_reduction.py),   *)
(* the Dataset Validator (check_labels.py) and the backup restorer         *)
(* (rename_bak_files.py, over the two subdirectories train and valid).     *)
(*                                                                         *)
(* A file name is a Python str, held as a sequence of one-character        *)
(* strings.  A directory is a function from the names it holds to files.   *)
(* A label file's text is held as Python's text-mode read sees it and      *)
(* str.split() tokenises it: a sequence of lines, a line a sequence of     *)
(* tokens.                                                                 *)
(***************************************************************************)
EXTENDS Integers, Sequences, FiniteSets, TLC

VARIABLES
    images,         \* images/ directory: name -> id of the file stored there
    labels,         \* labels/ directory: name -> [orig |-> id, text |-> content]
    images0,        \* images/ as it was when the engine started
    labels0,        \* labels/ as it was when the engine started
    posix,          \* TRUE: os.rename replaces an existing target; FALSE: it raises
    faults,         \* I/O failures the environment has produced so far
    dirs_ok,        \* the split has both images/ and labels/
    rpc,            \* Renamer: position in rename_image_label_pairs
    image_files,    \* Renamer: sorted listing of images/
    label_files,    \* Renamer: sorted listing of labels/
    idx,            \* Renamer: enumerate index of the pair being processed
    run,            \* Renamer: number of the call in progress
    rlog,           \* Renamer: lines printed, as <<tag, run, idx>>
    held,           \* Renamer: ids of the files of the pair being processed
    fpc,            \* Fixer: position in process_split / process_label_pair
    stems,          \* Fixer: sorted(stems) of process_split
    fi,             \* Fixer: number of stems already processed
    dry_run,        \* Fixer: self.dry_run
    stats,          \* Fixer: self.stats
    error_log,      \* Fixer: self.error_log, as <<tag, stem>>
    operation_log,  \* Fixer: self.operation_log, as <<tag, stem>>
    img_path,       \* Fixer: img_path of the stem being processed
    bak_content,    \* Fixer: bak_content of the stem being processed
    mpc,            \* Remapper: position in process_split / process_label_file
    mfiles,         \* Remapper: the os.listdir(labels_dir) the loop walks
    mi,             \* Remapper: number of listing entries already visited
    lines,          \* Remapper: lines, as f.readlines() returned them
    new_lines,      \* Remapper: new_lines of the file being processed
    mrun,           \* Remapper: calls of main so far
    vpc,            \* Validator: position in validate_split
    vorder,         \* Validator: the stems of image_files, in iteration order
    vi,             \* Validator: number of stems already visited
    line_num,       \* Validator: number of lines taken from the open file
    objects_in_image, \* Validator: objects_in_image of the open file
    split_stats,    \* Validator: split_stats
    missing_labels, \* Validator: missing_labels
    issues,         \* Validator: the messages printed, as <<kind, stem, line>>
    vret,           \* Validator: what validate_split returned
    bpc,            \* Backup restorer: position in main of rename_bak_files.py
    valid_images,   \* Backup restorer: valid/images (images is train/images)
    valid_labels,   \* Backup restorer: valid/labels (labels is train/labels)
    valid_labels0,  \* Backup restorer: valid/labels when main was called
    all_txt_to_delete,     \* Backup restorer: as <<subdir, filename>>
    all_bak_to_rename,     \* Backup restorer: as <<subdir, filename>>
    all_validation_issues, \* Backup restorer: as <<subdir, filename, issue>>
    bi,             \* Backup restorer: entries of the running loop already visited
    answers,        \* Backup restorer: the prompts answered, as <<prompt, answer>>
    bret            \* Backup restorer: what main returned

fsvars == <<images, labels, images0, labels0, posix, faults, dirs_ok>>
rvars == <<rpc, image_files, label_files, idx, run, rlog, held>>
fvars == <<fpc, stems, fi, dry_run, stats, error_log, operation_log, img_path, bak_content>>
mvars == <<mpc, mfiles, mi, lines, new_lines, mrun>>
vvars == <<vpc, vorder, vi, line_num, objects_in_image, split_stats, missing_labels,
           issues, vret>>
bvars == <<bpc, valid_images, valid_labels, valid_labels0, all_txt_to_delete,
           all_bak_to_rename, all_validation_issues, bi, answers, bret>>
ovars == <<mvars, vvars, bvars>>
vars == <<fsvars, rvars, fvars, ovars>>

\* The engines that are not running hold their start values.
RemapperIdle ==
    /\ mpc = "idle"
    /\ mfiles = <<>>
    /\ mi = 0
    /\ lines = <<>>
    /\ new_lines = <<>>
    /\ mrun = 0

NoStats ==
    [total_images |-> 0, total_labels |-> 0, images_without_labels |-> 0,
     empty_label_files |-> 0, invalid_format |-> 0, valid_images |-> 0,
     total_objects |-> 0, objects_per_image |-> <<>>]

ValidatorIdle ==
    /\ vpc = "idle"
    /\ vorder = <<>>
    /\ vi = 0
    /\ line_num = 0
    /\ objects_in_image = 0
    /\ split_stats = NoStats
    /\ missing_labels = {}
    /\ issues = <<>>
    /\ vret = "none"

BakIdle ==
    /\ bpc = "idle"
    /\ valid_images = <<>>
    /\ valid_labels = <<>>
    /\ valid_labels0 = <<>>
    /\ all_txt_to_delete = <<>>
    /\ all_bak_to_rename = <<>>
    /\ all_validation_issues = <<>>
    /\ bi = 0
    /\ answers = <<>>
    /\ bret = "none"

OthersIdle == RemapperIdle /\ ValidatorIdle /\ BakIdle

(***************************************************************************)
(* Bounds of the model.                                                    *)
(***************************************************************************)
MaxFiles == 3
MaxFaults == 2

(***************************************************************************)
(* Python str: comparison, lower(), endswith(), splitext(), formatting.    *)
(***************************************************************************)
\* The characters used, in increasing code point order.
Alphabet ==
    <<".", "0", "1", "2", "3", "4", "5", "6", "7", "8", "9",
      "G", "J", "N", "P", "a", "b", "c", "e", "f", "g", "i", "j", "k",
      "m", "n", "p", "q", "t", "x">>

Ord(c) == CHOOSE i \in DOMAIN Alphabet : Alphabet[i] = c

Min(a, b) == IF a <= b THEN a ELSE b

\* a < b for two str: the first differing character decides, else the length.
StrLess(a, b) ==
    \/ \E k \in 1..Min(Len(a), Len(b)) :
          /\ \A j \in 1..(k - 1) : a[j] = b[j]
          /\ Ord(a[k]) < Ord(b[k])
    \/ /\ Len(a) < Len(b)
       /\ \A j \in 1..Len(a) : a[j] = b[j]

RECURSIVE sorted(_)
sorted(S) ==
    IF S = {} THEN <<>>
    ELSE LET m == CHOOSE x \in S : \A y \in S \ {x} : StrLess(x, y)
         IN  <<m>> \o sorted(S \ {m})

LowerChar(c) ==
    CASE c = "G" -> "g"
      [] c = "J" -> "j"
      [] c = "N" -> "n"
      [] c = "P" -> "p"
      [] OTHER -> c

lower(s) == [i \in 1..Len(s) |-> LowerChar(s[i])]

endswith(s, suffix) ==
    /\ Len(s) >= Len(suffix)
    /\ SubSeq(s, Len(s) - Len(suffix) + 1, Len(s)) = suffix

\* os.path.splitext: the extension starts at the last dot, leading dots aside.
LeadingDots(s) ==
    IF \A i \in 1..Len(s) : s[i] = "." THEN Len(s)
    ELSE (CHOOSE i \in 1..Len(s) : s[i] # "." /\ \A j \in 1..(i - 1) : s[j] = ".") - 1

DotIndex(s) ==
    LET dots == {i \in (LeadingDots(s) + 1)..Len(s) : s[i] = "."}
    IN  IF dots = {} THEN 0 ELSE CHOOSE i \in dots : \A j \in dots : j <= i

splitext(s) ==
    IF DotIndex(s) = 0 THEN <<s, <<>>>>
    ELSE <<SubSeq(s, 1, DotIndex(s) - 1), SubSeq(s, DotIndex(s), Len(s))>>

RECURSIVE Digits(_)
Digits(n) ==
    IF n < 10 THEN <<Alphabet[n + 2]>>
    ELSE Digits(n \div 10) \o <<Alphabet[(n % 10) + 2]>>

RECURSIVE ZeroPad(_, _)
ZeroPad(s, width) == IF Len(s) >= width THEN s ELSE ZeroPad(<<"0">> \o s, width)

\* f"{idx:05d}"
PadWidth == 5
Fmt05(n) == ZeroPad(Digits(n), PadWidth)

JPG == <<".", "j", "p", "g">>
JPEG == <<".", "j", "p", "e", "g">>
PNG == <<".", "p", "n", "g">>
BMP == <<".", "b", "m", "p">>
GIF == <<".", "g", "i", "f">>
TIFF == <<".", "t", "i", "f", "f">>
TXT == <<".", "t", "x", "t">>
BAK == <<".", "b", "a", "k">>

(***************************************************************************)
(* The file system: listing, rename, unlink.                               *)
(***************************************************************************)
listdir(dir) == DOMAIN dir

\* The directory after os.rename(src, dst) succeeded.
Renamed(dir, src, dst) ==
    [n \in (DOMAIN dir \ {src}) \cup {dst} |-> IF n = dst THEN dir[src] ELSE dir[n]]

\* The directory after unlink(name) succeeded.
Unlinked(dir, name) == [n \in DOMAIN dir \ {name} |-> dir[n]]

\* os.rename(src, dst) raises on its own account: a missing source, or, on
\* Windows, an existing target other than the source itself.
RenameRaises(dir, src, dst) ==
    \/ src \notin DOMAIN dir
    \/ ~posix /\ dst \in DOMAIN dir /\ dst # src

\* The environment may fail an operation (permissions, locks, a full disk).
CanFault == faults < MaxFaults

(***************************************************************************)
(* Label text.  A token is the text of an integer ("int", v the integer),  *)
(* of a decimal number ("float", v its value in tenths) or of neither      *)
(* ("word").  int() accepts only the first kind, float() the first two.    *)
(***************************************************************************)
I(n) == [k |-> "int", v |-> n]
F(tenths) == [k |-> "float", v |-> tenths]
W == [k |-> "word", v |-> 0]

IntParses(tok) == tok.k = "int"
IntOf(tok) == tok.v
FloatParses(tok) == tok.k \in {"int", "float"}
FloatOf(tok) == IF tok.k = "int" THEN 10 * tok.v ELSE tok.v

Rec(c, x, y, w, h) == <<I(c), F(x), F(y), F(w), F(h)>>

(***************************************************************************)
(* Sequential Renamer: rename_image_label_pairs, for one split.            *)
(***************************************************************************)
IsImageFile(f) ==
    \/ endswith(lower(f), JPG)
    \/ endswith(lower(f), JPEG)
    \/ endswith(lower(f), PNG)

IsLabelFile(f) == endswith(lower(f), TXT)

ListImages == sorted({f \in listdir(images) : IsImageFile(f)})
ListLabels == sorted({f \in listdir(labels) : IsLabelFile(f)})

\* Lines 37-50, for the pair at enumerate index i.
ImgFile(i) == image_files[i + 1]
LblFile(i) == label_files[i + 1]
NewImgName(i) == Fmt05(i) \o splitext(ImgFile(i))[2]
NewLblName(i) == Fmt05(i) \o TXT

img_file == ImgFile(idx)
lbl_file == LblFile(idx)
new_img_name == NewImgName(idx)
new_lbl_name == NewLblName(idx)

\* zip() stops at the shorter listing.
PairCount == Min(Len(image_files), Len(label_files))

AlreadyNamed == img_file = new_img_name /\ lbl_file = new_lbl_name

Say(tag) == rlog' = Append(rlog, <<tag, run, idx>>)

\* Lines 21-23: a split without images/ or labels/ is skipped.
RenMissing ==
    /\ rpc = "start"
    /\ ~dirs_ok
    /\ rpc' = "done"
    /\ Say("skip_split")
    /\ UNCHANGED <<fsvars, image_files, label_files, idx, run, held, fvars, ovars>>

\* A mutant of the count check: only a surplus of images is caught.
MoreImagesThanLabels == Len(ListImages) > Len(ListLabels)

\* Line 30: len(image_files) != len(label_files).
MismatchedCounts == Len(ListImages) # Len(ListLabels)

\* Lines 25-32: the listings; a count mismatch skips the split.
RenMismatch ==
    /\ rpc = "start"
    /\ dirs_ok
    /\ MismatchedCounts
    /\ image_files' = ListImages
    /\ label_files' = ListLabels
    /\ rpc' = "done"
    /\ Say("mismatch")
    /\ UNCHANGED <<fsvars, idx, run, held, fvars, ovars>>

\* Lines 25-37: the listings, then the loop over zip(image_files, label_files).
RenBegin ==
    /\ rpc = "start"
    /\ dirs_ok
    /\ ~MismatchedCounts
    /\ image_files' = ListImages
    /\ label_files' = ListLabels
    /\ idx' = 0
    /\ rpc' = "pair"
    /\ Say("processing")
    /\ UNCHANGED <<fsvars, run, held, fvars, ovars>>

InLoop == rpc = "pair" /\ idx < PairCount

\* The ids of the files the pair's two names lead to (<<>>: no such file).
NoFile == <<>>
ImageAt(n) == IF n \in DOMAIN images THEN images[n] ELSE NoFile
LabelAt(n) == IF n \in DOMAIN labels THEN labels[n].orig ELSE NoFile
Holding == <<ImageAt(img_file), LabelAt(lbl_file)>>

\* Lines 52-55: the pair already has its target names.
RenAlready ==
    /\ InLoop
    /\ AlreadyNamed
    /\ held' = Holding
    /\ idx' = idx + 1
    /\ Say("already")
    /\ UNCHANGED <<fsvars, rpc, image_files, label_files, run, fvars, ovars>>

\* Lines 57-62: os.rename of the image raised; next pair.
RenImageFail ==
    /\ InLoop
    /\ ~AlreadyNamed
    /\ \/ RenameRaises(images, img_file, new_img_name) /\ UNCHANGED faults
       \/ CanFault /\ faults' = faults + 1
    /\ held' = Holding
    /\ idx' = idx + 1
    /\ Say("err_image")
    /\ UNCHANGED <<images, labels, images0, labels0, posix, dirs_ok,
                   rpc, image_files, label_files, run, fvars, ovars>>

\* Lines 57-59: os.rename of the image.
RenImageOk ==
    /\ InLoop
    /\ ~AlreadyNamed
    /\ ~RenameRaises(images, img_file, new_img_name)
    /\ images' = Renamed(images, img_file, new_img_name)
    /\ held' = Holding
    /\ rpc' = "label"
    /\ UNCHANGED <<labels, images0, labels0, posix, faults, dirs_ok,
                   image_files, label_files, idx, run, rlog, fvars, ovars>>

\* Lines 64-66, 76: os.rename of the label; next pair.
RenLabelOk ==
    /\ rpc = "label"
    /\ ~RenameRaises(labels, lbl_file, new_lbl_name)
    /\ labels' = Renamed(labels, lbl_file, new_lbl_name)
    /\ idx' = idx + 1
    /\ rpc' = "pair"
    /\ Say("renamed")
    /\ UNCHANGED <<images, images0, labels0, posix, faults, dirs_ok,
                   image_files, label_files, run, held, fvars, ovars>>

\* Lines 67-68: os.rename of the label raised.
RenLabelFail ==
    /\ rpc = "label"
    /\ \/ RenameRaises(labels, lbl_file, new_lbl_name) /\ UNCHANGED faults
       \/ CanFault /\ faults' = faults + 1
    /\ rpc' = "revert"
    /\ Say("err_label")
    /\ UNCHANGED <<images, labels, images0, labels0, posix, dirs_ok,
                   image_files, label_files, idx, run, held, fvars, ovars>>

\* A mutant of the compensation: the image is not renamed back.
RenNoRevert ==
    /\ rpc = "revert"
    /\ idx' = idx + 1
    /\ rpc' = "pair"
    /\ UNCHANGED <<fsvars, image_files, label_files, run, rlog, held, fvars, ovars>>

\* Lines 69-74: the image is renamed back; a failure of that is passed over.
RenRevert ==
    /\ rpc = "revert"
    /\ \/ /\ ~RenameRaises(images, new_img_name, img_file)
          /\ images' = Renamed(images, new_img_name, img_file)
          /\ UNCHANGED faults
       \/ /\ RenameRaises(images, new_img_name, img_file)
          /\ UNCHANGED <<images, faults>>
       \/ /\ CanFault
          /\ faults' = faults + 1
          /\ UNCHANGED images
    /\ idx' = idx + 1
    /\ rpc' = "pair"
    /\ UNCHANGED <<labels, images0, labels0, posix, dirs_ok,
                   image_files, label_files, run, rlog, held, fvars, ovars>>

\* Line 78: the loop is over.
RenComplete ==
    /\ rpc = "pair"
    /\ idx = PairCount
    /\ rpc' = "done"
    /\ Say("complete")
    /\ UNCHANGED <<fsvars, image_files, label_files, idx, run, held, fvars, ovars>>

\* The script is run a second time, on the split as the first run left it.
RenAgain ==
    /\ rpc = "done"
    /\ run = 1
    /\ run' = run + 1
    /\ rpc' = "start"
    /\ images0' = images
    /\ labels0' = labels
    /\ UNCHANGED <<images, labels, posix, faults, dirs_ok,
                   image_files, label_files, idx, rlog, held, fvars, ovars>>

RenNext ==
    \/ RenMissing
    \/ RenMismatch
    \/ RenBegin
    \/ RenAlready
    \/ RenImageFail
    \/ RenImageOk
    \/ RenLabelOk
    \/ RenLabelFail
    \/ RenRevert
    \/ RenComplete
    \/ RenAgain

\* The names a split may hold when the Renamer starts.
Name(stem, ext) == stem \o ext
RenImageNames ==
    { Name(<<"0">>, JPG), Name(<<"0", "0", "0", "0", "0">>, JPG),
      Name(<<"0", "0", "0", "0", "1">>, JPG), Name(<<"a">>, JPG),
      Name(<<"b">>, <<".", "P", "N", "G">>), Name(<<"c">>, BMP) }
RenLabelNames ==
    { Name(<<"0">>, TXT), Name(<<"0", "0", "0", "0", "0">>, TXT),
      Name(<<"0", "0", "0", "0", "1">>, TXT), Name(<<"a">>, TXT),
      Name(<<"b">>, TXT), Name(<<"c">>, TXT), Name(<<"a">>, BAK) }

UpTo(S, n) == {T \in SUBSET S : Cardinality(T) <= n}
ImageDir(S) == [n \in S |-> n]
LabelDir(S, text) == [n \in S |-> [orig |-> n, text |-> text]]

FixerIdle ==
    /\ fpc = "idle"
    /\ stems = <<>>
    /\ fi = 0
    /\ dry_run = TRUE
    /\ stats = [bak_copied_to_txt |-> 0, bak_empty_deleted |-> 0,
                images_deleted |-> 0, errors |-> 0]
    /\ error_log = <<>>
    /\ operation_log = <<>>
    /\ img_path = <<>>
    /\ bak_content = [ok |-> TRUE, text |-> <<>>]

RenInit ==
    /\ dirs_ok \in BOOLEAN
    /\ posix \in BOOLEAN
    /\ images \in {ImageDir(S) : S \in UpTo(RenImageNames, MaxFiles)}
    /\ labels \in {LabelDir(S, <<Rec(0, 5, 5, 2, 2)>>) : S \in UpTo(RenLabelNames, MaxFiles)}
    /\ ~dirs_ok => images = ImageDir({}) /\ labels = LabelDir({}, <<>>) /\ posix
    /\ images0 = images
    /\ labels0 = labels
    /\ faults = 0
    /\ rpc = "start"
    /\ image_files = <<>>
    /\ label_files = <<>>
    /\ idx = 0
    /\ run = 1
    /\ rlog = <<>>
    /\ held = <<>>
    /\ FixerIdle
    /\ OthersIdle

SpecRename == RenInit /\ [][RenNext]_vars

(***************************************************************************)
(* Conflict Resolver: LabelFixer.process_split and process_label_pair, for *)
(* one split.                                                              *)
(***************************************************************************)
num_classes == 6

\* What get_file_content returns: the text, or None after a failed read.
None == [ok |-> FALSE, text |-> <<>>]
Content(text) == [ok |-> TRUE, text |-> text]

IsBlank(line) == line = <<>>

\* Lines 40-63, for the parts of one non-blank line.
LineIsValid(parts) ==
    /\ Len(parts) = 5
    /\ IntParses(parts[1])
    /\ \A i \in 2..5 : FloatParses(parts[i])
    /\ ~(IntOf(parts[1]) < 0 \/ IntOf(parts[1]) >= num_classes)
    /\ \A i \in 2..5 : 0 <= FloatOf(parts[i]) /\ FloatOf(parts[i]) <= 10

\* A mutant of is_valid_yolo_format: the coordinate bounds taken as strict.
LineIsValidStrict(parts) ==
    /\ Len(parts) = 5
    /\ IntParses(parts[1])
    /\ \A i \in 2..5 : FloatParses(parts[i])
    /\ ~(IntOf(parts[1]) < 0 \/ IntOf(parts[1]) >= num_classes)
    /\ \A i \in 2..5 : 0 < FloatOf(parts[i]) /\ FloatOf(parts[i]) < 10

is_valid_yolo_format_strict(content) ==
    /\ content.ok
    /\ \E i \in 1..Len(content.text) : ~IsBlank(content.text[i])
    /\ \A i \in 1..Len(content.text) :
          IsBlank(content.text[i]) \/ LineIsValidStrict(content.text[i])

\* Lines 30-65: None, "" and whitespace are not valid; every non-blank line
\* must be.
is_valid_yolo_format(content) ==
    /\ content.ok
    /\ \E i \in 1..Len(content.text) : ~IsBlank(content.text[i])
    /\ \A i \in 1..Len(content.text) :
          IsBlank(content.text[i]) \/ LineIsValid(content.text[i])

\* f.name.rsplit('.', 1)[0]
RSplitDot(s) ==
    LET dots == {i \in 1..Len(s) : s[i] = "."}
    IN  IF dots = {} THEN s
        ELSE SubSeq(s, 1, (CHOOSE i \in dots : \A j \in dots : j <= i) - 1)

\* Lines 140-145: glob('*.txt') + glob('*.bak'), and the stems of the matches.
GlobStems ==
    {RSplitDot(f) : f \in {g \in listdir(labels) : endswith(g, TXT) \/ endswith(g, BAK)}}

stem == stems[fi + 1]
txt_path == stem \o TXT
bak_path == stem \o BAK

\* Lines 80-88: <stem>.jpg, else the first of .jpeg, .png, .bmp that exists.
AltExts == <<JPEG, PNG, BMP>>
ProbeImage(s) ==
    IF (s \o JPG) \in DOMAIN images THEN s \o JPG
    ELSE LET found == {i \in 1..Len(AltExts) : (s \o AltExts[i]) \in DOMAIN images}
         IN  IF found = {} THEN s \o JPG
             ELSE s \o AltExts[CHOOSE i \in found : \A j \in found : i <= j]

\* A mutant of the dry-run guard: the mutations are applied in every mode.
ApplyingAlways == TRUE

\* Lines 98 and 113: if not self.dry_run.
Applying == ~dry_run

Bump(counter) == [stats EXCEPT ![counter] = @ + 1]

\* Lines 135-137: a split without images/ or labels/ is left alone.
FixMissing ==
    /\ fpc = "start"
    /\ ~dirs_ok
    /\ fpc' = "done"
    /\ UNCHANGED <<fsvars, rvars, ovars, stems, fi, dry_run, stats, error_log,
                   operation_log, img_path, bak_content>>

\* Lines 139-150: the sorted stems of the label files.
FixScan ==
    /\ fpc = "start"
    /\ dirs_ok
    /\ stems' = sorted(GlobStems)
    /\ fi' = 0
    /\ fpc' = "pair"
    /\ UNCHANGED <<fsvars, rvars, ovars, dry_run, stats, error_log, operation_log,
                   img_path, bak_content>>

\* Where process_label_pair goes after its decision.
AfterDecision(valid) ==
    IF ~Applying THEN "pair" ELSE IF valid THEN "write" ELSE "rm_txt"

\* Lines 78-96 and 110-111: the paths, the read of the backup, the decision,
\* its log line and counter.  Without mutations (dry run) the pair is done.
Decide(content) ==
    /\ img_path' = ProbeImage(stem)
    /\ bak_content' = content
    /\ operation_log' =
          Append(operation_log,
                 <<IF is_valid_yolo_format(content) THEN "COPY" ELSE "DELETE", stem>>)
    /\ stats' = Bump(IF is_valid_yolo_format(content)
                     THEN "bak_copied_to_txt" ELSE "bak_empty_deleted")
    /\ fpc' = AfterDecision(is_valid_yolo_format(content))
    /\ fi' = IF Applying THEN fi ELSE fi + 1

InPairs == fpc = "pair" /\ fi < Len(stems)

FixDecide ==
    /\ InPairs
    /\ Decide(IF bak_path \in DOMAIN labels
              THEN Content(labels[bak_path].text) ELSE Content(<<>>))
    /\ UNCHANGED <<fsvars, rvars, ovars, stems, dry_run, error_log>>

\* Lines 69-74: the read of the backup raised; get_file_content logs it and
\* returns None.
FixDecideUnread ==
    /\ InPairs
    /\ bak_path \in DOMAIN labels
    /\ CanFault
    /\ faults' = faults + 1
    /\ error_log' = Append(error_log, <<"read", stem>>)
    /\ Decide(None)
    /\ UNCHANGED <<images, labels, images0, labels0, posix, dirs_ok, rvars, ovars,
                   stems, dry_run>>

\* A mutant of the except clause: the failure is logged but not counted.
GiveUpUncounted(tag) ==
    /\ CanFault
    /\ faults' = faults + 1
    /\ error_log' = Append(error_log, <<tag, stem>>)
    /\ stats' = stats
    /\ fi' = fi + 1
    /\ fpc' = "pair"
\* Lines 104-106 and 122-124: the except clause; the pair is given up.
GiveUp(tag) ==
    /\ CanFault
    /\ faults' = faults + 1
    /\ error_log' = Append(error_log, <<tag, stem>>)
    /\ stats' = Bump("errors")
    /\ fi' = fi + 1
    /\ fpc' = "pair"

\* Lines 100-101: open(txt_path, 'w') and write(bak_content).
Written(name, text) ==
    [n \in DOMAIN labels \cup {name} |->
        IF n = name
        THEN [orig |-> IF name \in DOMAIN labels THEN labels[name].orig ELSE name,
              text |-> text]
        ELSE labels[n]]

FixWrite ==
    /\ fpc = "write"
    /\ labels' = Written(txt_path, bak_content.text)
    /\ fpc' = "drop_bak"
    /\ UNCHANGED <<images, images0, labels0, posix, faults, dirs_ok, rvars, ovars,
                   stems, fi, dry_run, stats, error_log, operation_log,
                   img_path, bak_content>>

\* open() raised and left the file alone, or write() raised after open()
\* had truncated it.
FixWriteFail ==
    /\ fpc = "write"
    /\ \/ UNCHANGED labels
       \/ labels' = Written(txt_path, <<>>)
    /\ GiveUp("processing")
    /\ UNCHANGED <<images, images0, labels0, posix, dirs_ok, rvars, ovars,
                   stems, dry_run, operation_log, img_path, bak_content>>

\* Lines 102-103: the backup is unlinked if it exists; the pair is done.
FixDropBackup ==
    /\ fpc = "drop_bak"
    /\ labels' = IF bak_path \in DOMAIN labels THEN Unlinked(labels, bak_path) ELSE labels
    /\ fi' = fi + 1
    /\ fpc' = "pair"
    /\ UNCHANGED <<images, images0, labels0, posix, faults, dirs_ok, rvars, ovars,
                   stems, dry_run, stats, error_log, operation_log,
                   img_path, bak_content>>

FixDropBackupFail ==
    /\ fpc = "drop_bak"
    /\ bak_path \in DOMAIN labels
    /\ GiveUp("processing")
    /\ UNCHANGED <<images, labels, images0, labels0, posix, dirs_ok, rvars, ovars,
                   stems, dry_run, operation_log, img_path, bak_content>>

\* Lines 115-116: the primary is unlinked if it exists.
FixUnlinkTxt ==
    /\ fpc = "rm_txt"
    /\ labels' = IF txt_path \in DOMAIN labels THEN Unlinked(labels, txt_path) ELSE labels
    /\ fpc' = "rm_bak"
    /\ UNCHANGED <<images, images0, labels0, posix, faults, dirs_ok, rvars, ovars,
                   stems, fi, dry_run, stats, error_log, operation_log,
                   img_path, bak_content>>

\* Lines 117-118: the backup is unlinked if it exists.
FixUnlinkBak ==
    /\ fpc = "rm_bak"
    /\ labels' = IF bak_path \in DOMAIN labels THEN Unlinked(labels, bak_path) ELSE labels
    /\ fpc' = "rm_img"
    /\ UNCHANGED <<images, images0, labels0, posix, faults, dirs_ok, rvars, ovars,
                   stems, fi, dry_run, stats, error_log, operation_log,
                   img_path, bak_content>>

\* Lines 119-121: the image is unlinked if it exists; the pair is done.
FixUnlinkImg ==
    /\ fpc = "rm_img"
    /\ images' = IF img_path \in DOMAIN images THEN Unlinked(images, img_path) ELSE images
    /\ stats' = IF img_path \in DOMAIN images THEN Bump("images_deleted") ELSE stats
    /\ fi' = fi + 1
    /\ fpc' = "pair"
    /\ UNCHANGED <<labels, images0, labels0, posix, faults, dirs_ok, rvars, ovars,
                   stems, dry_run, error_log, operation_log, img_path, bak_content>>

\* One of the three unlinks of the delete case raised.
FixUnlinkFail ==
    /\ \/ fpc = "rm_txt" /\ txt_path \in DOMAIN labels
       \/ fpc = "rm_bak" /\ bak_path \in DOMAIN labels
       \/ fpc = "rm_img" /\ img_path \in DOMAIN images
    /\ GiveUp("deleting")
    /\ UNCHANGED <<images, labels, images0, labels0, posix, dirs_ok, rvars, ovars,
                   stems, dry_run, operation_log, img_path, bak_content>>

\* Line 155: every stem has been processed.
FixComplete ==
    /\ fpc = "pair"
    /\ fi = Len(stems)
    /\ fpc' = "done"
    /\ UNCHANGED <<fsvars, rvars, ovars, stems, fi, dry_run, stats, error_log,
                   operation_log, img_path, bak_content>>

FixNext ==
    \/ FixMissing
    \/ FixScan
    \/ FixDecide
    \/ FixDecideUnread
    \/ FixWrite
    \/ FixWriteFail
    \/ FixDropBackup
    \/ FixDropBackupFail
    \/ FixUnlinkTxt
    \/ FixUnlinkBak
    \/ FixUnlinkImg
    \/ FixUnlinkFail
    \/ FixComplete

\* The samples a split may hold when the Fixer starts: per stem a primary or
\* none, a backup or none, an image of one of the allowed extensions or none.
FixStems == {<<"a">>, <<"b">>}
ImageExts == {JPG, JPEG, PNG, BMP, GIF, TIFF}
PrimaryTexts == {<<Rec(0, 5, 5, 2, 2)>>}
BackupTexts ==
    { <<>>,
      << <<>> >>,
      <<Rec(0, 4, 4, 1, 1)>>,
      <<Rec(5, 5, 5, 2, 2), <<>>, Rec(2, 0, 10, 10, 3)>>,
      << <<I(1), I(1), I(0), F(5), F(5)>> >>,
      << <<I(0), F(5), F(5), F(2)>> >>,
      <<Rec(6, 5, 5, 2, 2)>>,
      <<Rec(-1, 5, 5, 2, 2)>>,
      << <<F(10), F(5), F(5), F(2), F(2)>> >>,
      <<Rec(1, 11, 1, 1, 1)>>,
      << <<I(1), F(5), W, F(2), F(2)>> >>,
      <<Rec(0, 4, 4, 1, 1), <<I(0), F(5)>>>> }

Absent == [there |-> FALSE, v |-> <<>>]
Maybe(S) == {Absent} \cup {[there |-> TRUE, v |-> x] : x \in S}
Sample == [txt : Maybe(PrimaryTexts), bak : Maybe(BackupTexts), img : Maybe(ImageExts)]

SampleImages(c) == {s \o c[s].img.v : s \in {t \in FixStems : c[t].img.there}}
SampleLabels(c) ==
    {s \o TXT : s \in {t \in FixStems : c[t].txt.there}}
    \cup {s \o BAK : s \in {t \in FixStems : c[t].bak.there}}
TextIn(c, f) ==
    IF endswith(f, TXT) THEN c[RSplitDot(f)].txt.v ELSE c[RSplitDot(f)].bak.v
Present(c, f) == [orig |-> f, text |-> TextIn(c, f)]

RenamerIdle ==
    /\ rpc = "idle"
    /\ image_files = <<>>
    /\ label_files = <<>>
    /\ idx = 0
    /\ run = 1
    /\ rlog = <<>>
    /\ held = <<>>

FixInit ==
    /\ dirs_ok \in BOOLEAN
    /\ dry_run \in BOOLEAN
    /\ posix = TRUE
    /\ \E c \in [FixStems -> Sample] :
          /\ images = ImageDir(SampleImages(c))
          /\ labels = [f \in SampleLabels(c) |-> Present(c, f)]
    /\ ~dirs_ok => images = ImageDir({}) /\ labels = LabelDir({}, <<>>) /\ dry_run
    /\ images0 = images
    /\ labels0 = labels
    /\ faults = 0
    /\ fpc = "start"
    /\ stems = <<>>
    /\ fi = 0
    /\ stats = [bak_copied_to_txt |-> 0, bak_empty_deleted |-> 0,
                images_deleted |-> 0, errors |-> 0]
    /\ error_log = <<>>
    /\ operation_log = <<>>
    /\ img_path = <<>>
    /\ bak_content = Content(<<>>)
    /\ RenamerIdle
    /\ OthersIdle

SpecFixer == FixInit /\ [][FixNext]_vars

(***************************************************************************)
(* Properties of the Sequential Renamer.                                   *)
(***************************************************************************)
StemOf(f) == splitext(f)[1]
ExtOf(f) == splitext(f)[2]
ImageFilesOf(dir) == {f \in DOMAIN dir : IsImageFile(f)}
LabelFilesOf(dir) == {f \in DOMAIN dir : IsLabelFile(f)}
ImageStems(dir) == {StemOf(f) : f \in ImageFilesOf(dir)}
LabelStems(dir) == {StemOf(f) : f \in LabelFilesOf(dir)}
ImageIds(dir) == {dir[f] : f \in DOMAIN dir}
LabelIds(dir) == {dir[f].orig : f \in DOMAIN dir}

\* The samples that had both an image and a label when the call started.
PairedBefore == ImageStems(images0) \cap LabelStems(labels0)
Identifiers(n) == {Fmt05(i) : i \in 0..(n - 1)}

CountsDiffered == Cardinality(ImageFilesOf(images0)) # Cardinality(LabelFilesOf(labels0))

Printed(tag) == \E i \in 1..Len(rlog) : rlog[i][1] = tag /\ rlog[i][2] = run
PrintedIn(tag, r) == \E i \in 1..Len(rlog) : rlog[i][1] = tag /\ rlog[i][2] = r

\* The call in progress has printed no error and no I/O failure has happened.
CleanRun == faults = 0 /\ ~Printed("err_image") /\ ~Printed("err_label")

\* The call has gone through the whole loop of a split with equal counts.
RenumberDone == rpc = "done" /\ Printed("complete")

\* Every image had a label of its stem and every label an image.
FullyPaired == ImageStems(images0) = LabelStems(labels0)

\* C2: after renumber on a split with as many images as labels, the stems in
\* images/ and labels/ are exactly 00000 .. N-1, N the number of samples that
\* had both files before the call, every image keeps its extension and no
\* file is lost.  Stated for the splits the claim is least demanding on: all
\* samples paired, and a call that met no error.
C2_DenseIdentifiers ==
    (RenumberDone /\ CleanRun /\ FullyPaired) =>
        /\ ImageStems(images) = Identifiers(Cardinality(PairedBefore))
        /\ LabelStems(labels) = Identifiers(Cardinality(PairedBefore))
        /\ ImageIds(images) = ImageIds(images0)
        /\ LabelIds(labels) = LabelIds(labels0)
        /\ run = 1 => \A f \in ImageFilesOf(images) : ExtOf(f) = ExtOf(images[f])

\* C3: no rename step takes as its target a name that is still the name of a
\* pair not yet processed, so no file is overwritten and a run ends with as
\* many images and labels as it started with.
PendingImages == {ImgFile(j) : j \in (idx + 1)..(PairCount - 1)}
PendingLabels == {LblFile(j) : j \in (idx + 1)..(PairCount - 1)}
C3_NoPendingTarget ==
    /\ (InLoop /\ ~AlreadyNamed) =>
          /\ new_img_name \notin PendingImages
          /\ new_lbl_name \notin PendingLabels
    /\ rpc = "done" =>
          /\ Cardinality(DOMAIN images) = Cardinality(DOMAIN images0)
          /\ Cardinality(DOMAIN labels) = Cardinality(DOMAIN labels0)

\* C4: renumber pairs by stem: a file whose stem has no counterpart is left
\* alone, and an image and a label that shared a stem before the call share
\* a stem after it.
NameOfImage(id) == CHOOSE f \in DOMAIN images : images[f] = id
NameOfLabel(id) == CHOOSE f \in DOMAIN labels : labels[f].orig = id
C4_PairedByStem ==
    (RenumberDone /\ CleanRun /\ run = 1) =>
        /\ \A f \in ImageFilesOf(images0) :
              StemOf(f) \notin PairedBefore => ImageAt(f) = f
        /\ \A f \in LabelFilesOf(labels0) :
              StemOf(f) \notin PairedBefore => LabelAt(f) = f
        /\ \A f \in ImageFilesOf(images0), g \in LabelFilesOf(labels0) :
              StemOf(f) = StemOf(g) =>
                  /\ f \in ImageIds(images)
                  /\ g \in LabelIds(labels)
                  /\ StemOf(NameOfImage(f)) = StemOf(NameOfLabel(g))

\* C5: when the image count differs from the label count, renumber leaves
\* both directories exactly as they were and prints the mismatch error.
C5_MismatchAborts ==
    (dirs_ok /\ CountsDiffered) =>
        /\ images = images0
        /\ labels = labels0
        /\ rpc = "done" => Printed("mismatch") /\ ~Printed("processing")

C5_Witness ==
    /\ rpc = "done"
    /\ dirs_ok
    /\ CountsDiffered
    /\ ImageFilesOf(images0) # {}
    /\ LabelFilesOf(labels0) # {}
    /\ Printed("mismatch")

\* C6: at every sample boundary the pair just processed has either both its
\* new names or both its old names.
BothNew(i) == ImageAt(NewImgName(i)) = held[1] /\ LabelAt(NewLblName(i)) = held[2]
BothOld(i) == ImageAt(ImgFile(i)) = held[1] /\ LabelAt(LblFile(i)) = held[2]
AtBoundary == rpc = "pair" /\ idx >= 1
LabelFailed(i) ==
    \E j \in 1..Len(rlog) : rlog[j] = <<"err_label", run, i>>
Torn(i) ==
    /\ ImageAt(NewImgName(i)) = held[1]
    /\ LabelAt(LblFile(i)) = held[2]
    /\ LabelFailed(i)
    /\ faults >= 1
FirstRunClean ==
    /\ run = 2
    /\ ~PrintedIn("err_image", 1)
    /\ ~PrintedIn("err_label", 1)
C7_SecondRunNoOp == [][FirstRunClean => images' = images /\ labels' = labels]_vars

(***************************************************************************)
(* Properties of the Conflict Resolver.                                    *)
(***************************************************************************)
\* The stems process_label_pair has finished with.
Processed == {stems[i] : i \in 1..fi}

HadBackup(s) == (s \o BAK) \in DOMAIN labels0
BackupBefore(s) == labels0[s \o BAK].text

\* A fully valid label file, in the words of the data model: at least one
\* record, and every non-blank line has exactly 5 fields, an integer class id
\* in [0, num_classes) and four coordinates in [0, 1].
IsRecord(line) ==
    /\ Len(line) = 5
    /\ line[1].k = "int"
    /\ line[1].v \in 0..(num_classes - 1)
    /\ \A i \in 2..5 :
          \/ line[i].k = "float" /\ line[i].v \in 0..10
          \/ line[i].k = "int" /\ line[i].v \in 0..1
FullyValid(text) ==
    /\ \E i \in 1..Len(text) : text[i] # <<>>
    /\ \A i \in 1..Len(text) : text[i] = <<>> \/ IsRecord(text[i])

ImagesOfStem(dir, s) == {f \in DOMAIN dir : \E e \in ImageExts : f = s \o e}

\* C1: a stop between two file operations never leaves an image without its
\* label: every image whose primary label was there when the engine started
\* has it in every state the engine passes through.
C1_NoImageWithoutLabel ==
    \A s \in FixStems :
        (ImagesOfStem(images, s) # {} /\ (s \o TXT) \in DOMAIN labels0)
            => (s \o TXT) \in DOMAIN labels

C9_SampleRemoved ==
    (~dry_run /\ faults = 0) =>
        \A s \in Processed :
            ~(HadBackup(s) /\ FullyValid(BackupBefore(s))) =>
                /\ (s \o TXT) \notin DOMAIN labels
                /\ (s \o BAK) \notin DOMAIN labels
                /\ ImagesOfStem(images, s) = {}

\* C10: a dry run changes no file and logs one decision for every sample.
Decisions == {operation_log[i][2] : i \in 1..Len(operation_log)}
C10_DryRunFrame ==
    dry_run =>
        /\ images = images0
        /\ labels = labels0
        /\ Decisions = Processed
        /\ Len(operation_log) = fi
        /\ fpc = "done" => Processed = {RSplitDot(f) : f \in DOMAIN labels0}

C10_Witness ==
    /\ dry_run
    /\ fpc = "done"
    /\ \E i, j \in 1..Len(operation_log) :
          operation_log[i][1] = "COPY" /\ operation_log[j][1] = "DELETE"
    /\ DOMAIN images # {}

(***************************************************************************)
(* C11: the order of a sample's file operations and the isolation of a     *)
(* failed step.                                                            *)
(***************************************************************************)
Touched(dir, dir2) ==
    {n \in DOMAIN dir \cup DOMAIN dir2 :
        n \notin DOMAIN dir \/ n \notin DOMAIN dir2 \/ dir[n] # dir2[n]}

ApplySteps == {"write", "drop_bak", "rm_txt", "rm_bak", "rm_img"}
StepFailed == fpc \in ApplySteps /\ faults' = faults + 1

\* The primary is touched first, then the backup, then the image.
StepsInOrder ==
    /\ fpc \notin ApplySteps => Touched(labels, labels') = {} /\ images' = images
    /\ fpc \in {"write", "rm_txt"} =>
          /\ Touched(labels, labels') \subseteq {txt_path}
          /\ images' = images
          /\ fpc' \in {IF fpc = "write" THEN "drop_bak" ELSE "rm_bak", "pair"}
    /\ fpc \in {"drop_bak", "rm_bak"} =>
          /\ Touched(labels, labels') \subseteq {bak_path}
          /\ images' = images
          /\ fpc' \in {IF fpc = "rm_bak" THEN "rm_img" ELSE "pair", "pair"}
    /\ fpc = "rm_img" =>
          /\ Touched(labels, labels') = {}
          /\ Touched(images, images') \subseteq {img_path}
          /\ fpc' = "pair"

\* A failed step is logged and counted once, and the sample is left for the
\* next one.
FailureIsolated ==
    StepFailed =>
        /\ error_log' = Append(error_log, <<error_log'[Len(error_log')][1], stem>>)
        /\ stats'.errors = stats.errors + 1
        /\ fi' = fi + 1
        /\ fpc' = "pair"
        /\ images' = images
        /\ Touched(labels, labels') \subseteq (IF fpc = "write" THEN {txt_path} ELSE {})

\* C11: in apply mode a sample's operations are attempted in the order
\* primary (write or delete), backup delete, image delete; a step that fails
\* is logged, adds one to the error counter and ends that sample with no
\* later step; the errors counter moves only then; and the batch still
\* decides every sample.
C11_OrderedAndIsolated ==
    /\ [][StepsInOrder /\ FailureIsolated
            /\ (stats'.errors # stats.errors => StepFailed)
            /\ fi' >= fi]_vars
    /\ [](fpc = "done" /\ dirs_ok =>
            fi = Len(stems) /\ Decisions = {stems[i] : i \in 1..Len(stems)})

\* The first of two samples lost a step to a failure and the second was
\* still carried through its delete case.
C11_Witness ==
    /\ fpc = "done"
    /\ ~dry_run
    /\ Len(stems) = 2
    /\ stats.errors = 1
    /\ Len(error_log) = 1
    /\ error_log[1][2] = stems[1]
    /\ ImagesOfStem(images, stems[1]) # {}
    /\ ImagesOfStem(images0, stems[2]) # {}
    /\ ImagesOfStem(images, stems[2]) = {}
    /\ stats.images_deleted = 1

(***************************************************************************)
(* Class Remapper: label_reduction.py, process_split and                   *)
(* process_label_file, for one split.                                      *)
(***************************************************************************)
BACKUP_LABELS == TRUE
DELETE_CLASSES == {0, 1, 4}
MERGE_TO_MILITARY == {2, 3, 5}
NEW_CLASS_ID == 0

\* Line 30: parts = line.strip().split() is the line's sequence of tokens.
\* Lines 31-34: a line of 5 or more fields reaches int(parts[0]), which
\* raises ValueError unless the field is the text of an integer.
IntRaises(parts) == Len(parts) >= 5 /\ ~IntParses(parts[1])
LinesRaise(text) == \E i \in 1..Len(text) : IntRaises(text[i])

\* Lines 39-41: a line whose class is merged is appended with
\* parts[0] = str(NEW_CLASS_ID); no other line is appended.
\* A mutant of the selection: every line whose class is not deleted is
\* appended.
AppendedUnlessDeleted(parts) == Len(parts) >= 5 /\ IntOf(parts[1]) \notin DELETE_CLASSES
Appended(parts) == Len(parts) >= 5 /\ IntOf(parts[1]) \in MERGE_TO_MILITARY
\* A mutant of the rewrite: the merged line keeps its class id.
Unrewritten(parts) == parts
Rewritten(parts) == [parts EXCEPT ![1] = I(NEW_CLASS_ID)]

\* Lines 27-41: new_lines, for lines none of which raises.
RECURSIVE NewLines(_)
NewLines(text) ==
    IF text = <<>> THEN <<>>
    ELSE (IF Appended(Head(text)) THEN <<Rewritten(Head(text))>> ELSE <<>>)
            \o NewLines(Tail(text))

\* os.listdir returns the names in an order the platform chooses.
Listings(S) ==
    {q \in [1..Cardinality(S) -> S] : \A i, j \in DOMAIN q : q[i] = q[j] => i = j}

file == mfiles[mi + 1]
label_path == file
backup_path == label_path \o BAK

\* Lines 51-53: a split without a labels directory is left alone.
RemapMissing ==
    /\ mpc = "start"
    /\ ~dirs_ok
    /\ mpc' = "done"
    /\ UNCHANGED <<fsvars, rvars, fvars, vvars, bvars, mfiles, mi, lines, new_lines, mrun>>

\* Line 57: the listing of labels/ is taken once, before the loop.
RemapList ==
    /\ mpc = "start"
    /\ dirs_ok
    /\ mfiles' \in Listings(listdir(labels))
    /\ mi' = 0
    /\ mpc' = "file"
    /\ UNCHANGED <<fsvars, rvars, fvars, vvars, bvars, lines, new_lines, mrun>>

InListing == mpc = "file" /\ mi < Len(mfiles)

\* Lines 58-59 and 65-66: a name that does not end in .txt, or is no longer
\* a file, is passed over.
RemapSkip ==
    /\ InListing
    /\ ~endswith(file, TXT) \/ file \notin DOMAIN labels
    /\ mi' = mi + 1
    /\ UNCHANGED <<fsvars, rvars, fvars, vvars, bvars, mpc, mfiles, lines, new_lines, mrun>>

Remappable == InListing /\ endswith(file, TXT) /\ file \in DOMAIN labels

\* Lines 24-41: the file is read and new_lines is built.
RemapRead ==
    /\ Remappable
    /\ ~LinesRaise(labels[file].text)
    /\ lines' = labels[file].text
    /\ new_lines' = NewLines(labels[file].text)
    /\ mpc' = IF BACKUP_LABELS THEN "copy" ELSE "write"
    /\ UNCHANGED <<fsvars, rvars, fvars, vvars, bvars, mfiles, mi, mrun>>

\* Line 34: int(parts[0]) raised.  Nothing catches the ValueError in
\* process_label_file, process_split or main: the run ends here.
RemapRaise ==
    /\ Remappable
    /\ LinesRaise(labels[file].text)
    /\ lines' = labels[file].text
    /\ mpc' = "crashed"
    /\ UNCHANGED <<fsvars, rvars, fvars, vvars, bvars, mfiles, mi, new_lines, mrun>>

\* A mutant of the backup: the copy is taken of what the call writes.
RemapCopyLate ==
    /\ mpc = "copy"
    /\ labels' = Written(backup_path, new_lines)
    /\ mpc' = "write"
    /\ UNCHANGED <<images, images0, labels0, posix, faults, dirs_ok, rvars, fvars, vvars, bvars,
                   mfiles, mi, lines, new_lines, mrun>>
\* Line 44: shutil.copy(label_path, label_path + ".bak").
RemapCopy ==
    /\ mpc = "copy"
    /\ labels' = Written(backup_path, labels[label_path].text)
    /\ mpc' = "write"
    /\ UNCHANGED <<images, images0, labels0, posix, faults, dirs_ok, rvars, fvars, vvars, bvars,
                   mfiles, mi, lines, new_lines, mrun>>

\* Lines 46-47: open(label_path, "w") and writelines(new_lines).
RemapWrite ==
    /\ mpc = "write"
    /\ labels' = Written(label_path, new_lines)
    /\ mi' = mi + 1
    /\ mpc' = "file"
    /\ UNCHANGED <<images, images0, labels0, posix, faults, dirs_ok, rvars, fvars, vvars, bvars,
                   mfiles, lines, new_lines, mrun>>

\* The read, the copy or the write raised; the exception is not caught.  A
\* copy or a write that raised may have left its target empty.
RemapFault ==
    /\ CanFault
    /\ faults' = faults + 1
    /\ \/ Remappable /\ UNCHANGED labels
       \/ mpc = "copy" /\ UNCHANGED labels
       \/ mpc = "copy" /\ labels' = Written(backup_path, <<>>)
       \/ mpc = "write" /\ UNCHANGED labels
       \/ mpc = "write" /\ labels' = Written(label_path, <<>>)
    /\ mpc' = "crashed"
    /\ UNCHANGED <<images, images0, labels0, posix, dirs_ok, rvars, fvars, vvars, bvars,
                   mfiles, mi, lines, new_lines, mrun>>

\* Line 57: the listing is exhausted.
RemapComplete ==
    /\ mpc = "file"
    /\ mi = Len(mfiles)
    /\ mpc' = "done"
    /\ UNCHANGED <<fsvars, rvars, fvars, vvars, bvars, mfiles, mi, lines, new_lines, mrun>>

RemapNext ==
    \/ RemapMissing
    \/ RemapList
    \/ RemapSkip
    \/ RemapRead
    \/ RemapRaise
    \/ RemapCopy
    \/ RemapWrite
    \/ RemapFault
    \/ RemapComplete

\* The label files the Remapper is started on: a.txt with any text of up to
\* MaxLines lines, optionally b.txt and a backup a.txt.bak of an earlier run,
\* and the images of the two samples.
MaxLines == 2
RemapLines ==
    { Rec(2, 5, 5, 2, 2), Rec(3, 1, 1, 1, 1), Rec(0, 4, 4, 1, 1), Rec(4, 9, 9, 1, 1),
      Rec(6, 3, 3, 2, 2),
      <<>>,
      <<I(2), F(5)>>,
      <<I(5), F(5), F(5), F(2), F(2), F(9)>>,
      <<W, F(5), F(5), F(2), F(2)>> }
TextsUpTo(Pool, n) == UNION {[1..k -> Pool] : k \in 0..n}
RemapTexts == TextsUpTo(RemapLines, MaxLines)
OtherTexts ==
    { <<Rec(3, 1, 1, 1, 1)>>,
      <<Rec(5, 2, 2, 1, 1), Rec(1, 5, 5, 2, 2), Rec(2, 5, 5, 2, 2)>> }
StaleTexts == {<<Rec(1, 5, 5, 2, 2)>>}

A_TXT == Name(<<"a">>, TXT)
B_TXT == Name(<<"b">>, TXT)
A_TXT_BAK == A_TXT \o BAK
RemapImages == {Name(<<"a">>, JPG), Name(<<"b">>, JPG)}

RemapLabels(ta, tb, stale) ==
    [n \in {A_TXT} \cup (IF tb.there THEN {B_TXT} ELSE {})
                   \cup (IF stale.there THEN {A_TXT_BAK} ELSE {}) |->
        [orig |-> n,
         text |-> IF n = A_TXT THEN ta ELSE IF n = B_TXT THEN tb.v ELSE stale.v]]

RemapStart(TextsOfA) ==
    /\ dirs_ok \in BOOLEAN
    /\ posix = TRUE
    /\ IF dirs_ok
       THEN /\ images \in {ImageDir(S) : S \in SUBSET RemapImages}
            /\ \E ta \in TextsOfA, tb \in Maybe(OtherTexts), stale \in Maybe(StaleTexts) :
                  labels = RemapLabels(ta, tb, stale)
       ELSE images = ImageDir({}) /\ labels = LabelDir({}, <<>>)
    /\ images0 = images
    /\ labels0 = labels
    /\ faults = 0
    /\ mpc = "start"
    /\ mfiles = <<>>
    /\ mi = 0
    /\ lines = <<>>
    /\ new_lines = <<>>
    /\ mrun = 1
    /\ RenamerIdle
    /\ FixerIdle
    /\ ValidatorIdle
    /\ BakIdle

RemapInit == RemapStart(RemapTexts)

SpecRemap == RemapInit /\ [][RemapNext]_vars

(***************************************************************************)
(* Properties of the Class Remapper.                                       *)
(***************************************************************************)
\* The label files process_label_file has returned from, and their text
\* before and after the call.
Remapped == {mfiles[i] : i \in 1..mi} \cap {f \in DOMAIN labels0 : endswith(f, TXT)}
TextBefore(f) == labels0[f].text
TextAfter(f) == labels[f].text

\* A line that carries a class id, and the id.
HasClass(line) == Len(line) >= 5 /\ line[1].k = "int"
ClassIn(line, S) == HasClass(line) /\ line[1].v \in S
WithClass(line, c) == [line EXCEPT ![1] = I(c)]
LinesOf(text) == {text[i] : i \in 1..Len(text)}

\* C12 as stated: after remap no record of the file has a class id of the
\* delete set, and every record whose class id was in the merge domain is
\* there with the mapped id.
C12_NoDeletedClassLeft ==
    \A f \in Remapped :
        /\ \A l \in LinesOf(TextAfter(f)) : ~ClassIn(l, DELETE_CLASSES)
        /\ \A l \in LinesOf(TextBefore(f)) :
              ClassIn(l, MERGE_TO_MILITARY) =>
                  WithClass(l, NEW_CLASS_ID) \in LinesOf(TextAfter(f))

\* C12, amended: after remap the records of the file are the records whose
\* class id was in the merge domain, each carrying the mapped id 0 (an id that
\* is itself in the delete set); no record comes from one whose class id was
\* in the delete set.
C12_DeletedGoneMergedMapped ==
    \A f \in Remapped :
        /\ \A l \in LinesOf(TextAfter(f)) :
              /\ HasClass(l) /\ l[1].v = NEW_CLASS_ID
              /\ \E o \in LinesOf(TextBefore(f)) :
                    ClassIn(o, MERGE_TO_MILITARY) /\ l = WithClass(o, NEW_CLASS_ID)
        /\ \A o \in LinesOf(TextBefore(f)) :
              ClassIn(o, MERGE_TO_MILITARY) =>
                  WithClass(o, NEW_CLASS_ID) \in LinesOf(TextAfter(f))

\* a.txt held a record to delete and a record to merge, and only the merged
\* one is left, with class id 0.
C12_Witness ==
    /\ mpc = "done"
    /\ A_TXT \in Remapped
    /\ TextBefore(A_TXT) = <<Rec(4, 9, 9, 1, 1), Rec(3, 1, 1, 1, 1)>>
    /\ TextAfter(A_TXT) = <<Rec(0, 1, 1, 1, 1)>>

\* The lines of the file after the call are, in order and with their fields
\* after the class id untouched, the lines that carried a class id of K
\* before it.
Nth(S, j) == CHOOSE i \in S : Cardinality({k \in S : k <= i}) = j
KeptInOrder(f, K) ==
    LET kept == {i \in 1..Len(TextBefore(f)) : ClassIn(TextBefore(f)[i], K)}
    IN  /\ Len(TextAfter(f)) = Cardinality(kept)
        /\ \A j \in 1..Len(TextAfter(f)) :
              Tail(TextAfter(f)[j]) = Tail(TextBefore(f)[Nth(kept, j)])

\* C13 as stated: a record whose class id is neither deleted nor merged is
\* in the file after remap as it was; the records after remap are the records
\* before it less the deleted ones, in their order.
C13_UnmentionedPassThrough ==
    \A f \in Remapped :
        /\ \A o \in LinesOf(TextBefore(f)) :
              (HasClass(o) /\ o[1].v \notin DELETE_CLASSES \cup MERGE_TO_MILITARY)
                  => o \in LinesOf(TextAfter(f))
        /\ KeptInOrder(f, Int \ DELETE_CLASSES)

\* C13, amended: remap keeps only the records whose class id is in the merge
\* domain: the records after remap are those records, in their order and with
\* their coordinates, and a record whose class id is in neither set is
\* dropped like a deleted one.
C13_OnlyMergedKept ==
    \A f \in Remapped :
        /\ KeptInOrder(f, MERGE_TO_MILITARY)
        /\ \A l \in LinesOf(TextAfter(f)) : ClassIn(l, {NEW_CLASS_ID})

\* a.txt lost its record of class 6 and kept the merged one; b.txt kept its
\* two merged records in their order.
C13_Witness ==
    /\ mpc = "done"
    /\ {A_TXT, B_TXT} \subseteq Remapped
    /\ TextBefore(A_TXT) = <<Rec(6, 3, 3, 2, 2), Rec(2, 5, 5, 2, 2)>>
    /\ TextAfter(A_TXT) = <<Rec(0, 5, 5, 2, 2)>>
    /\ Len(TextBefore(B_TXT)) = 3
    /\ TextAfter(B_TXT) = <<Rec(0, 2, 2, 1, 1), Rec(0, 5, 5, 2, 2)>>

\* C14: with the backup enabled, the sibling backup is written before the
\* label file is overwritten: when the overwrite is due the backup holds the
\* label's text, which is still the text of before the call; when the call
\* has returned the backup holds that text and the label holds the new
\* records only; a label file changes only in the overwrite, and no file of
\* the images directory is touched.
C14_BackupThenReplace ==
    /\ [](BACKUP_LABELS /\ mpc = "write" =>
            /\ backup_path \in DOMAIN labels
            /\ labels[backup_path].text = TextBefore(file)
            /\ labels[label_path].text = TextBefore(file))
    /\ [](BACKUP_LABELS =>
            \A f \in Remapped :
                /\ (f \o BAK) \in DOMAIN labels
                /\ labels[f \o BAK].text = TextBefore(f)
                /\ Len(TextAfter(f)) =
                      Cardinality({i \in 1..Len(TextBefore(f)) :
                                      ClassIn(TextBefore(f)[i], MERGE_TO_MILITARY)}))
    /\ [][/\ images' = images
          /\ \A f \in Touched(labels, labels') :
                endswith(f, TXT) => mpc = "write" /\ f = label_path]_vars

\* a.txt came with an image and a backup of an earlier run; the backup now
\* holds what a.txt held before the call and a.txt holds the one record that
\* survived.
C14_Witness ==
    /\ mpc = "done"
    /\ A_TXT \in Remapped
    /\ A_TXT_BAK \in DOMAIN labels0
    /\ DOMAIN images # {}
    /\ TextBefore(A_TXT) = <<Rec(2, 5, 5, 2, 2), Rec(0, 4, 4, 1, 1)>>
    /\ labels[A_TXT_BAK].text = TextBefore(A_TXT)
    /\ labels0[A_TXT_BAK].text # TextBefore(A_TXT)
    /\ TextAfter(A_TXT) = <<Rec(0, 5, 5, 2, 2)>>

(***************************************************************************)
(* The Class Remapper followed by the Conflict Resolver on the same split. *)
(***************************************************************************)
PipeTexts ==
    { <<>>,
      <<Rec(2, 5, 5, 2, 2), Rec(0, 4, 4, 1, 1)>>,
      <<Rec(6, 3, 3, 2, 2)>>,
      << <<W, F(5), F(5), F(2), F(2)>> >> }

\* LabelFixer(dataset_path, num_classes=6, dry_run=...) is constructed and
\* process_split is called once the Remapper has ended.
FixAfterRemap ==
    /\ mpc \in {"done", "crashed"}
    /\ fpc = "idle"
    /\ fpc' = "start"
    /\ dry_run' \in BOOLEAN
    /\ images0' = images
    /\ labels0' = labels
    /\ UNCHANGED <<images, labels, posix, faults, dirs_ok, rvars, ovars, stems, fi,
                   stats, error_log, operation_log, img_path, bak_content>>

PipeNext == RemapNext \/ FixAfterRemap \/ FixNext

PipeInit == RemapStart(PipeTexts)

SpecPipeline == PipeInit /\ [][PipeNext]_vars

\* The backups the Remapper left: <name>.txt.bak beside <name>.txt.
RemapBackups == {f \in DOMAIN labels0 : endswith(f, TXT \o BAK)}
PrimaryOf(f) == SubSeq(f, 1, Len(f) - Len(BAK))
SampleOf(f) == RSplitDot(PrimaryOf(f))

\* C15: the Fixer, run in apply mode after a remap with backups, takes
\* <stem>.txt.bak for the backup of sample <stem>: a sample whose remap backup
\* is a fully valid label file ends with its primary holding the backup's
\* text and with its image.
C15_RemapBackupPromoted ==
    (mpc = "done" /\ fpc = "done" /\ ~dry_run /\ faults = 0) =>
        \A f \in RemapBackups :
            FullyValid(labels0[f].text) =>
                /\ PrimaryOf(f) \in DOMAIN labels
                /\ labels[PrimaryOf(f)].text = labels0[f].text
                /\ \A g \in DOMAIN images0 :
                      RSplitDot(g) = SampleOf(f) => g \in DOMAIN images

\* C16: remap is lenient: a line that is not a well-formed record (other
\* than 5 fields, or a first field that is not an integer) is skipped without
\* raising, so that the run never ends in an exception of its own, every
\* label file of the split is rewritten, and only 5-field records are
\* written.
AllLabelFiles == {f \in DOMAIN labels0 : endswith(f, TXT)}
C16_MalformedSkipped ==
    faults = 0 =>
        /\ mpc # "crashed"
        /\ (mpc = "done" /\ dirs_ok) => Remapped = AllLabelFiles
        /\ \A f \in Remapped : \A l \in LinesOf(TextAfter(f)) : Len(l) = 5

(***************************************************************************)
(* Dataset Validator: DatasetValidator.validate_split of check_labels.py,  *)
(* for one split.  The totals of self.stats (lines 168-174) are the sums   *)
(* of split_stats over the splits and are not held separately.             *)
(***************************************************************************)
validator_num_classes == 6
image_extensions == {JPG, JPEG, PNG, BMP, GIF}

\* Lines 53-61: the stems of the images with a known suffix, and of the
\* labels whose suffix is .txt.
suffix(f) == splitext(f)[2]
val_image_files == {splitext(f)[1] : f \in {g \in listdir(images) : lower(suffix(g)) \in image_extensions}}
val_label_files == {splitext(f)[1] : f \in {g \in listdir(labels) : suffix(g) = TXT}}

img_stem == vorder[vi + 1]
label_text == labels[img_stem \o TXT].text
parts == label_text[line_num + 1]

\* Lines 129-133: int(parts[0]) and the four float(parts[i]) all succeed.
Parses(p) == IntParses(p[1]) /\ \A i \in 2..5 : FloatParses(p[i])
\* Line 136.
ClassInRange(p) == IntOf(p[1]) >= 0 /\ IntOf(p[1]) < validator_num_classes
\* Lines 143-144.
CoordsInRange(p) == \A i \in 2..5 : 0 <= FloatOf(p[i]) /\ FloatOf(p[i]) <= 10

Issue(kind) == Append(issues, <<kind, img_stem, line_num + 1>>)
Invalid == [split_stats EXCEPT !.invalid_format = @ + 1]

\* Lines 43-49: a split without images/ or labels/ is not validated.
ValMissingDir ==
    /\ vpc = "start"
    /\ ~dirs_ok
    /\ vret' = "False"
    /\ vpc' = "done"
    /\ UNCHANGED <<fsvars, rvars, fvars, mvars, bvars, vorder, vi, line_num,
                   objects_in_image, split_stats, missing_labels, issues>>

\* Lines 51-91: the two dictionaries, split_stats and the images without a
\* label.  The dictionary of images is walked in the order of iterdir().
ValStart ==
    /\ vpc = "start"
    /\ dirs_ok
    /\ vorder' \in Listings(val_image_files)
    /\ missing_labels' = val_image_files \ val_label_files
    /\ split_stats' =
          [NoStats EXCEPT !.total_images = Cardinality(val_image_files),
                          !.total_labels = Cardinality(val_label_files),
                          !.images_without_labels =
                              Cardinality(val_image_files \ val_label_files)]
    /\ vi' = 0
    /\ vpc' = "file"
    /\ UNCHANGED <<fsvars, rvars, fvars, mvars, bvars, line_num, objects_in_image,
                   issues, vret>>

InImages == vpc = "file" /\ vi < Len(vorder)
HasLabel == InImages /\ img_stem \in val_label_files

\* Lines 98-99: an image without a label is passed over.
ValNoLabel ==
    /\ InImages
    /\ img_stem \notin val_label_files
    /\ vi' = vi + 1
    /\ UNCHANGED <<fsvars, rvars, fvars, mvars, bvars, vpc, vorder, line_num,
                   objects_in_image, split_stats, missing_labels, issues, vret>>

\* Lines 104-108: a label file of size 0 is counted and not opened.
ValEmpty ==
    /\ HasLabel
    /\ label_text = <<>>
    /\ issues' = Append(issues, <<"empty", img_stem, 0>>)
    /\ split_stats' = [split_stats EXCEPT !.empty_label_files = @ + 1]
    /\ vi' = vi + 1
    /\ UNCHANGED <<fsvars, rvars, fvars, mvars, bvars, vpc, vorder, line_num,
                   objects_in_image, missing_labels, vret>>

\* Lines 112-113: objects_in_image = 0 and the file is opened.
ValOpen ==
    /\ HasLabel
    /\ label_text # <<>>
    /\ objects_in_image' = 0
    /\ line_num' = 0
    /\ vpc' = "line"
    /\ UNCHANGED <<fsvars, rvars, fvars, mvars, bvars, vorder, vi, split_stats,
                   missing_labels, issues, vret>>

\* Lines 160-162: open() raised; the outer except counts the file as invalid.
ValOpenFail ==
    /\ HasLabel
    /\ label_text # <<>>
    /\ CanFault
    /\ faults' = faults + 1
    /\ objects_in_image' = 0
    /\ issues' = Append(issues, <<"read", img_stem, 0>>)
    /\ split_stats' = Invalid
    /\ vi' = vi + 1
    /\ UNCHANGED <<images, labels, images0, labels0, posix, dirs_ok, rvars, fvars,
                   mvars, bvars, vpc, vorder, line_num, missing_labels, vret>>

InLines == vpc = "line" /\ line_num < Len(label_text)

\* Lines 115-117: a blank line is passed over.
ValBlank ==
    /\ InLines
    /\ parts = <<>>
    /\ line_num' = line_num + 1
    /\ UNCHANGED <<fsvars, rvars, fvars, mvars, bvars, vpc, vorder, vi, objects_in_image,
                   split_stats, missing_labels, issues, vret>>

\* A mutant of the verdict: a class id out of range does not end the scan.
VerdictClassTolerant(p) ==
    IF Len(p) # 5 THEN "format"
    ELSE IF ~Parses(p) THEN "value"
    ELSE "object"
\* What the line is found to be: lines 122, 150, 136, else a counted object.
Verdict(p) ==
    IF Len(p) # 5 THEN "format"
    ELSE IF ~Parses(p) THEN "value"
    ELSE IF ~ClassInRange(p) THEN "class"
    ELSE "object"

\* Lines 122-126, 136-140 and 150-153: the line is reported, the split's
\* invalid_format is incremented and the loop over the lines is left.
ValBreak ==
    /\ InLines
    /\ parts # <<>>
    /\ Verdict(parts) # "object"
    /\ issues' = Issue(Verdict(parts))
    /\ split_stats' = Invalid
    /\ line_num' = line_num + 1
    /\ vpc' = "broke"
    /\ UNCHANGED <<fsvars, rvars, fvars, mvars, bvars, vorder, vi, objects_in_image,
                   missing_labels, vret>>

\* Lines 143-148: coordinates out of [0, 1] are printed as a warning; the
\* line is counted as an object either way.
ValObject ==
    /\ InLines
    /\ parts # <<>>
    /\ Verdict(parts) = "object"
    /\ issues' = IF CoordsInRange(parts) THEN issues ELSE Issue("coords")
    /\ objects_in_image' = objects_in_image + 1
    /\ line_num' = line_num + 1
    /\ UNCHANGED <<fsvars, rvars, fvars, mvars, bvars, vpc, vorder, vi, split_stats,
                   missing_labels, vret>>

\* Line 155: the test is on the split's counter of invalid files.
CountsAsValid == split_stats.invalid_format = 0

\* Lines 155-158: after the last line, or after a break.
ValEndFile ==
    /\ \/ vpc = "line" /\ line_num = Len(label_text)
       \/ vpc = "broke"
    /\ split_stats' =
          IF CountsAsValid
          THEN [split_stats EXCEPT
                   !.valid_images = @ + 1,
                   !.total_objects = @ + objects_in_image,
                   !.objects_per_image = Append(@, objects_in_image)]
          ELSE split_stats
    /\ vi' = vi + 1
    /\ vpc' = "file"
    /\ UNCHANGED <<fsvars, rvars, fvars, mvars, bvars, vorder, line_num, objects_in_image,
                   missing_labels, issues, vret>>

\* Line 176: the split is valid when no label is missing and no file was
\* counted as invalid.
ValDone ==
    /\ vpc = "file"
    /\ vi = Len(vorder)
    /\ vret' = IF missing_labels = {} /\ split_stats.invalid_format = 0
               THEN "True" ELSE "False"
    /\ vpc' = "done"
    /\ UNCHANGED <<fsvars, rvars, fvars, mvars, bvars, vorder, vi, line_num,
                   objects_in_image, split_stats, missing_labels, issues>>

ValNext ==
    \/ ValMissingDir
    \/ ValStart
    \/ ValNoLabel
    \/ ValEmpty
    \/ ValOpen
    \/ ValOpenFail
    \/ ValBlank
    \/ ValBreak
    \/ ValObject
    \/ ValEndFile
    \/ ValDone

\* The split the Validator is started on: images a.jpg and b.jpg, a.txt with
\* any text of up to MaxLines lines, b.txt with one of a few texts.
ValLines ==
    { Rec(0, 5, 5, 2, 2), Rec(5, 0, 10, 10, 3),
      Rec(6, 5, 5, 2, 2), Rec(-1, 5, 5, 2, 2),
      Rec(1, 20, 1, 1, 1),
      <<>>,
      <<I(0), F(5), F(5), F(2)>>,
      <<I(1), F(5), W, F(2), F(2)>> }
ValTexts == TextsUpTo(ValLines, MaxLines)
OtherValTexts ==
    { <<>>,
      <<Rec(0, 4, 4, 1, 1), Rec(2, 5, 5, 2, 2)>>,
      <<Rec(1, 5, 5, 2, 2), <<I(0)>>, Rec(0, 4, 4, 1, 1)>>,
      <<Rec(7, 5, 5, 2, 2), Rec(0, 4, 4, 1, 1)>> }

ValLabels(ta, tb) ==
    [n \in (IF ta.there THEN {A_TXT} ELSE {}) \cup (IF tb.there THEN {B_TXT} ELSE {}) |->
        [orig |-> n, text |-> IF n = A_TXT THEN ta.v ELSE tb.v]]

ValInit ==
    /\ dirs_ok \in BOOLEAN
    /\ posix = TRUE
    /\ IF dirs_ok
       THEN /\ images \in {ImageDir(S) : S \in SUBSET RemapImages}
            /\ \E ta \in Maybe(ValTexts), tb \in Maybe(OtherValTexts) :
                  labels = ValLabels(ta, tb)
       ELSE images = ImageDir({}) /\ labels = LabelDir({}, <<>>)
    /\ images0 = images
    /\ labels0 = labels
    /\ faults = 0
    /\ vpc = "start"
    /\ vorder = <<>>
    /\ vi = 0
    /\ line_num = 0
    /\ objects_in_image = 0
    /\ split_stats = NoStats
    /\ missing_labels = {}
    /\ issues = <<>>
    /\ vret = "none"
    /\ RenamerIdle
    /\ FixerIdle
    /\ RemapperIdle
    /\ BakIdle

SpecValidate == ValInit /\ [][ValNext]_vars

(***************************************************************************)
(* Properties of the Dataset Validator.                                    *)
(***************************************************************************)
\* In the words of the data model: a right-shaped line has 5 numeric fields,
\* the first an integer; its class id or a coordinate may be out of range.
ShapeOk(p) ==
    /\ Len(p) = 5
    /\ p[1].k = "int"
    /\ \A i \in 2..5 : p[i].k \in {"int", "float"}
ClassOut(p) == p[1].v \notin 0..(validator_num_classes - 1)
CoordOut(p) == \E i \in 2..5 : FloatOf(p[i]) < 0 \/ FloatOf(p[i]) > 10
LineTaken == InLines /\ line_num' = line_num + 1

ValidRecord(p) == ShapeOk(p) /\ ~ClassOut(p) /\ ~CoordOut(p)
TakenLines(P(_)) == {i \in 1..line_num : P(label_text[i])}
CoordOutRecord(p) == ShapeOk(p) /\ ~ClassOut(p) /\ CoordOut(p)
CoordIssues == {i \in 1..Len(issues) : issues[i][1] = "coords" /\ issues[i][2] = img_stem}
C18_OutOfRangeNotCounted ==
    vpc \in {"line", "broke"} =>
        /\ objects_in_image = Cardinality(TakenLines(ValidRecord))
        /\ Cardinality(CoordIssues) = Cardinality(TakenLines(CoordOutRecord))

\* C20: a label file that is not empty and has no malformed line and no
\* class id out of range is counted as a valid image and its objects are
\* recorded, whatever the other label files hold and in whatever order the
\* files are scanned.
CleanFile(text) ==
    /\ text # <<>>
    /\ \A i \in 1..Len(text) : text[i] = <<>> \/ (ShapeOk(text[i]) /\ ~ClassOut(text[i]))
CleanStems == {s \in val_image_files \cap val_label_files : CleanFile(labels[s \o TXT].text)}
C20_ValidCountedPerFile ==
    (vpc = "done" /\ dirs_ok /\ faults = 0) =>
        /\ split_stats.valid_images = Cardinality(CleanStems)
        /\ Len(split_stats.objects_per_image) = Cardinality(CleanStems)

(***************************************************************************)
(* Backup restorer: main of rename_bak_files.py, over the two              *)
(* subdirectories train and valid.  A missing directory lists as an empty  *)
(* one (lines 30-31 and 47-48).                                            *)
(***************************************************************************)
SUBDIRS == <<"train", "valid">>
TXT_BAK == TXT \o BAK

LabelsIn(subdir) == IF subdir = "train" THEN labels ELSE valid_labels
ImagesIn(subdir) == IF subdir = "train" THEN images ELSE valid_images

\* Lines 33-39: the sorted .txt names and the sorted .txt.bak names.
txt_files(subdir) ==
    sorted({f \in listdir(LabelsIn(subdir)) : ~endswith(f, TXT_BAK) /\ endswith(f, TXT)})
bak_files(subdir) ==
    sorted({f \in listdir(LabelsIn(subdir)) : endswith(f, TXT_BAK)})

\* Lines 50-53: the names of the images, without their extension.
get_image_files(subdir) ==
    {splitext(f)[1] : f \in {g \in listdir(ImagesIn(subdir)) :
                                lower(splitext(g)[2]) \in ImageExts}}

\* Lines 61-68: the last 8 characters hold '.txt' at most once.
Last(s, n) == SubSeq(s, Len(s) - n + 1, Len(s))
CountTxt(s) == Cardinality({i \in 1..(Len(s) - 3) : SubSeq(s, i, i + 3) = TXT})
validate_no_double_extension(filename) ==
    IF Len(filename) < 8 THEN TRUE ELSE CountTxt(Last(filename, 8)) <= 1

\* Lines 74-78.
get_label_base_name(label_file) ==
    IF endswith(label_file, TXT_BAK) THEN SubSeq(label_file, 1, Len(label_file) - 8)
    ELSE IF endswith(label_file, TXT) THEN SubSeq(label_file, 1, Len(label_file) - 4)
    ELSE label_file

Tagged(subdir, names) == [i \in 1..Len(names) |-> <<subdir, names[i]>>]
Noted(subdir, names, issue) == [i \in 1..Len(names) |-> <<subdir, names[i], issue>>]

\* Lines 159-171: the issues of one subdirectory.
DoubleExtension(f) == ~validate_no_double_extension(f)
NoImage(subdir, f) == get_label_base_name(f) \notin get_image_files(subdir)
IssuesIn(subdir) ==
    Noted(subdir, SelectSeq(bak_files(subdir), DoubleExtension), "double")
    \o Noted(subdir, SelectSeq(bak_files(subdir), LAMBDA f : NoImage(subdir, f)), "image")

\* Lines 110-184: the three lists are collected over the subdirectories.
BakScan ==
    /\ bpc = "start"
    /\ all_txt_to_delete' =
          Tagged(SUBDIRS[1], txt_files(SUBDIRS[1])) \o Tagged(SUBDIRS[2], txt_files(SUBDIRS[2]))
    /\ all_bak_to_rename' =
          Tagged(SUBDIRS[1], bak_files(SUBDIRS[1])) \o Tagged(SUBDIRS[2], bak_files(SUBDIRS[2]))
    /\ all_validation_issues' = IssuesIn(SUBDIRS[1]) \o IssuesIn(SUBDIRS[2])
    /\ bpc' = "summary"
    /\ UNCHANGED <<fsvars, rvars, fvars, mvars, vvars, valid_images, valid_labels,
                   valid_labels0, bi, answers, bret>>

\* Lines 191-200: with a validation issue main returns False.
BakRefuse ==
    /\ bpc = "summary"
    /\ all_validation_issues # <<>>
    /\ bret' = "False"
    /\ bpc' = "done"
    /\ UNCHANGED <<fsvars, rvars, fvars, mvars, vvars, valid_images, valid_labels,
                   valid_labels0, all_txt_to_delete, all_bak_to_rename,
                   all_validation_issues, bi, answers>>

AtStep1 == bpc = "summary" /\ all_validation_issues = <<>>

\* Lines 221-222: nothing to delete.
BakNoDelete ==
    /\ AtStep1
    /\ all_txt_to_delete = <<>>
    /\ bpc' = "step2"
    /\ UNCHANGED <<fsvars, rvars, fvars, mvars, vvars, valid_images, valid_labels,
                   valid_labels0, all_txt_to_delete, all_bak_to_rename,
                   all_validation_issues, bi, answers, bret>>

\* Lines 207-208: the user answers yes to the first prompt.
BakConfirmDelete ==
    /\ AtStep1
    /\ all_txt_to_delete # <<>>
    /\ answers' = Append(answers, <<"delete", "yes">>)
    /\ bi' = 0
    /\ bpc' = "deleting"
    /\ UNCHANGED <<fsvars, rvars, fvars, mvars, vvars, valid_images, valid_labels,
                   valid_labels0, all_txt_to_delete, all_bak_to_rename,
                   all_validation_issues, bret>>

\* A mutant of the first prompt: the answer no is passed over.
BakDeclineDeleteIgnored ==
    /\ AtStep1
    /\ all_txt_to_delete # <<>>
    /\ answers' = Append(answers, <<"delete", "no">>)
    /\ bi' = 0
    /\ bpc' = "deleting"
    /\ UNCHANGED <<fsvars, rvars, fvars, mvars, vvars, valid_images, valid_labels,
                   valid_labels0, all_txt_to_delete, all_bak_to_rename,
                   all_validation_issues, bret>>
\* Lines 218-220: the user answers no; main returns False.
BakDeclineDelete ==
    /\ AtStep1
    /\ all_txt_to_delete # <<>>
    /\ answers' = Append(answers, <<"delete", "no">>)
    /\ bret' = "False"
    /\ bpc' = "done"
    /\ UNCHANGED <<fsvars, rvars, fvars, mvars, vvars, valid_images, valid_labels,
                   valid_labels0, all_txt_to_delete, all_bak_to_rename,
                   all_validation_issues, bi>>

SetLabels(subdir, dir) ==
    IF subdir = "train" THEN labels' = dir /\ UNCHANGED valid_labels
    ELSE valid_labels' = dir /\ UNCHANGED labels

\* Lines 209-213: os.remove of the next .txt file.
BakRemove ==
    /\ bpc = "deleting"
    /\ bi < Len(all_txt_to_delete)
    /\ LET subdir == all_txt_to_delete[bi + 1][1]
           filename == all_txt_to_delete[bi + 1][2]
       IN  SetLabels(subdir, IF filename \in DOMAIN LabelsIn(subdir)
                             THEN Unlinked(LabelsIn(subdir), filename)
                             ELSE LabelsIn(subdir))
    /\ bi' = bi + 1
    /\ UNCHANGED <<images, images0, labels0, posix, faults, dirs_ok, rvars, fvars,
                   mvars, vvars, bpc, valid_images, valid_labels0, all_txt_to_delete,
                   all_bak_to_rename, all_validation_issues, answers, bret>>

\* Lines 214-215: os.remove raised; the error is printed and the loop goes on.
BakRemoveFail ==
    /\ bpc = "deleting"
    /\ bi < Len(all_txt_to_delete)
    /\ CanFault
    /\ faults' = faults + 1
    /\ bi' = bi + 1
    /\ UNCHANGED <<images, labels, images0, labels0, posix, dirs_ok, rvars, fvars,
                   mvars, vvars, bpc, valid_images, valid_labels, valid_labels0,
                   all_txt_to_delete, all_bak_to_rename, all_validation_issues,
                   answers, bret>>

\* Line 217: the loop is over.
BakDeleted ==
    /\ bpc = "deleting"
    /\ bi = Len(all_txt_to_delete)
    /\ bpc' = "step2"
    /\ UNCHANGED <<fsvars, rvars, fvars, mvars, vvars, valid_images, valid_labels,
                   valid_labels0, all_txt_to_delete, all_bak_to_rename,
                   all_validation_issues, bi, answers, bret>>

\* Lines 246-247: nothing to rename.
BakNoRename ==
    /\ bpc = "step2"
    /\ all_bak_to_rename = <<>>
    /\ bpc' = "verify"
    /\ UNCHANGED <<fsvars, rvars, fvars, mvars, vvars, valid_images, valid_labels,
                   valid_labels0, all_txt_to_delete, all_bak_to_rename,
                   all_validation_issues, bi, answers, bret>>

\* Lines 229-230: the user answers yes to the second prompt.
BakConfirmRename ==
    /\ bpc = "step2"
    /\ all_bak_to_rename # <<>>
    /\ answers' = Append(answers, <<"rename", "yes">>)
    /\ bi' = 0
    /\ bpc' = "renaming"
    /\ UNCHANGED <<fsvars, rvars, fvars, mvars, vvars, valid_images, valid_labels,
                   valid_labels0, all_txt_to_delete, all_bak_to_rename,
                   all_validation_issues, bret>>

\* Lines 243-245: the user answers no; main returns False.
BakDeclineRename ==
    /\ bpc = "step2"
    /\ all_bak_to_rename # <<>>
    /\ answers' = Append(answers, <<"rename", "no">>)
    /\ bret' = "False"
    /\ bpc' = "done"
    /\ UNCHANGED <<fsvars, rvars, fvars, mvars, vvars, valid_images, valid_labels,
                   valid_labels0, all_txt_to_delete, all_bak_to_rename,
                   all_validation_issues, bi>>

\* Lines 231-240: os.rename of the next .txt.bak file to its name without
\* .bak; a rename that raises on its own account is printed and passed over.
BakRename ==
    /\ bpc = "renaming"
    /\ bi < Len(all_bak_to_rename)
    /\ LET subdir == all_bak_to_rename[bi + 1][1]
           filename == all_bak_to_rename[bi + 1][2]
           new_filename == SubSeq(filename, 1, Len(filename) - 4)
       IN  SetLabels(subdir, IF RenameRaises(LabelsIn(subdir), filename, new_filename)
                             THEN LabelsIn(subdir)
                             ELSE Renamed(LabelsIn(subdir), filename, new_filename))
    /\ bi' = bi + 1
    /\ UNCHANGED <<images, images0, labels0, posix, faults, dirs_ok, rvars, fvars,
                   mvars, vvars, bpc, valid_images, valid_labels0, all_txt_to_delete,
                   all_bak_to_rename, all_validation_issues, answers, bret>>

\* Lines 239-240: os.rename raised for a reason of the environment.
BakRenameFail ==
    /\ bpc = "renaming"
    /\ bi < Len(all_bak_to_rename)
    /\ CanFault
    /\ faults' = faults + 1
    /\ bi' = bi + 1
    /\ UNCHANGED <<images, labels, images0, labels0, posix, dirs_ok, rvars, fvars,
                   mvars, vvars, bpc, valid_images, valid_labels, valid_labels0,
                   all_txt_to_delete, all_bak_to_rename, all_validation_issues,
                   answers, bret>>

\* Line 242: the loop is over.
BakRenamed ==
    /\ bpc = "renaming"
    /\ bi = Len(all_bak_to_rename)
    /\ bpc' = "verify"
    /\ UNCHANGED <<fsvars, rvars, fvars, mvars, vvars, valid_images, valid_labels,
                   valid_labels0, all_txt_to_delete, all_bak_to_rename,
                   all_validation_issues, bi, answers, bret>>

\* Lines 249-280: the final verification only prints; main returns True.
BakFinish ==
    /\ bpc = "verify"
    /\ bret' = "True"
    /\ bpc' = "done"
    /\ UNCHANGED <<fsvars, rvars, fvars, mvars, vvars, valid_images, valid_labels,
                   valid_labels0, all_txt_to_delete, all_bak_to_rename,
                   all_validation_issues, bi, answers>>

BakNext ==
    \/ BakScan
    \/ BakRefuse
    \/ BakNoDelete
    \/ BakConfirmDelete
    \/ BakDeclineDelete
    \/ BakRemove
    \/ BakRemoveFail
    \/ BakDeleted
    \/ BakNoRename
    \/ BakConfirmRename
    \/ BakDeclineRename
    \/ BakRename
    \/ BakRenameFail
    \/ BakRenamed
    \/ BakFinish

\* The dataset main is started on.
BakLabelNames == {A_TXT, A_TXT_BAK, B_TXT, B_TXT \o BAK}
BakImageNames == {Name(<<"a">>, JPG), Name(<<"b">>, <<".", "P", "N", "G">>)}

BakInit ==
    /\ dirs_ok = TRUE
    /\ posix \in BOOLEAN
    /\ images \in {ImageDir(S) : S \in SUBSET BakImageNames}
    /\ labels \in {LabelDir(S, <<Rec(0, 5, 5, 2, 2)>>) : S \in SUBSET BakLabelNames}
    /\ valid_images \in {ImageDir(S) : S \in SUBSET BakImageNames}
    /\ valid_labels \in {LabelDir(S, <<Rec(0, 5, 5, 2, 2)>>) : S \in SUBSET BakLabelNames}
    /\ images0 = images
    /\ labels0 = labels
    /\ valid_labels0 = valid_labels
    /\ faults = 0
    /\ bpc = "start"
    /\ all_txt_to_delete = <<>>
    /\ all_bak_to_rename = <<>>
    /\ all_validation_issues = <<>>
    /\ bi = 0
    /\ answers = <<>>
    /\ bret = "none"
    /\ RenamerIdle
    /\ FixerIdle
    /\ RemapperIdle
    /\ ValidatorIdle

SpecBak == BakInit /\ [][BakNext]_vars

(***************************************************************************)
(* Properties of the backup restorer.                                      *)
(***************************************************************************)
Said(prompt, answer) == \E i \in 1..Len(answers) : answers[i] = <<prompt, answer>>
DatasetAsCalled ==
    /\ images = images0
    /\ labels = labels0
    /\ valid_labels = valid_labels0
DatasetStep ==
    \/ images' # images
    \/ valid_images' # valid_images
    \/ labels' # labels
    \/ valid_labels' # valid_labels
Removed(dir0, dir) == DOMAIN dir0 \ DOMAIN dir

\* C19 as stated: no file is deleted or renamed before an affirmative
\* answer; with a validation issue, or the first prompt declined, the dataset
\* is as it was when main returns False; and whenever main returns False
\* after a prompt was declined, no label file has been removed.
C19_DeclinedMeansUntouched ==
    /\ [][DatasetStep => \E i \in 1..Len(answers) : answers[i][2] = "yes"]_vars
    /\ []((bret = "False" /\ (all_validation_issues # <<>> \/ Said("delete", "no")))
            => DatasetAsCalled)
    /\ []((bret = "False" /\ \E i \in 1..Len(answers) : answers[i][2] = "no")
            => (Removed(labels0, labels) = {} /\ Removed(valid_labels0, valid_labels) = {}))

\* C19, amended: a file is deleted only after yes to the first prompt and
\* renamed only after yes to the second; with a validation issue, or the
\* first prompt declined, the dataset is as it was when main returns False;
\* when main returns False because the second prompt was declined, no backup
\* has been renamed or removed and no image touched, but the .txt files
\* confirmed at the first prompt have already been deleted.
OnlyTxtRemoved(dir0, dir) ==
    /\ DOMAIN dir \subseteq DOMAIN dir0
    /\ \A f \in DOMAIN dir : dir[f] = dir0[f]
    /\ \A f \in Removed(dir0, dir) : endswith(f, TXT) /\ Said("delete", "yes")
C19_EachStepAfterItsPrompt ==
    /\ [][/\ (images' = images /\ valid_images' = valid_images)
          /\ (labels' # labels \/ valid_labels' # valid_labels) =>
                \/ bpc = "deleting" /\ Said("delete", "yes") /\ ~Said("rename", "yes")
                \/ bpc = "renaming" /\ Said("rename", "yes")]_vars
    /\ []((bret = "False" /\ (all_validation_issues # <<>> \/ Said("delete", "no")))
            => DatasetAsCalled)
    /\ []((bret = "False" /\ Said("rename", "no")) =>
            /\ images = images0
            /\ OnlyTxtRemoved(labels0, labels)
            /\ OnlyTxtRemoved(valid_labels0, valid_labels))

\* The first prompt was confirmed and a.txt of train was deleted, then the
\* second prompt was declined: main has returned False with the backup
\* a.txt.bak still under its name.
C19_Witness ==
    /\ bret = "False"
    /\ answers = << <<"delete", "yes">>, <<"rename", "no">> >>
    /\ A_TXT \in DOMAIN labels0
    /\ A_TXT \notin DOMAIN labels
    /\ A_TXT_BAK \in DOMAIN labels
    /\ labels[A_TXT_BAK] = labels0[A_TXT_BAK]

(***************************************************************************)
(* The Class Remapper run twice over the same split with the same rule     *)
(* set.                                                                    *)
(***************************************************************************)
\* main (lines 72-82) is called again once the first call has returned;
\* nothing is kept between the calls but the files.  images0 and labels0 are
\* from here on the split as the second call found it.
RemapAgain ==
    /\ mpc = "done"
    /\ mrun = 1
    /\ mrun' = mrun + 1
    /\ mpc' = "start"
    /\ mfiles' = <<>>
    /\ mi' = 0
    /\ lines' = <<>>
    /\ new_lines' = <<>>
    /\ images0' = images
    /\ labels0' = labels
    /\ UNCHANGED <<images, labels, posix, faults, dirs_ok, rvars, fvars, vvars, bvars>>

RemapTwiceNext == RemapNext \/ RemapAgain

SpecRemapTwice == RemapInit /\ [][RemapTwiceNext]_vars

\* C21: remap is idempotent on label content: a label file the second call
\* has returned from holds the records the first call left in it, and with
\* the backup enabled its backup still holds what it held when the second
\* call began, the text of before the first remap.
C21_SecondRemapChangesNothing ==
    (mrun = 2 /\ faults = 0) =>
        \A f \in Remapped :
            /\ TextAfter(f) = TextBefore(f)
            /\ (BACKUP_LABELS /\ (f \o BAK) \in DOMAIN labels0) =>
                  /\ (f \o BAK) \in DOMAIN labels
                  /\ labels[f \o BAK].text = labels0[f \o BAK].text
====
